---- MODULE Spec2Model ----
(***************************************************************************)
(* Catalog core of django-ecommerce-api: the category tree                 *)
(* (shop/models.py Category), the two attribute stores (ProductAttribute,  *)
(* ProductAttributeValue) and the two filter views (shop/api_views.py).    *)
(* The persistent store is the state; every model method or view is one    *)
(* action that leaves its outcome in `response`.                           *)
(***************************************************************************)
EXTENDS Integers, Sequences, FiniteSets, TLC

VARIABLES
    categories,           \* Category table: id -> [parent, category_type]
    products,             \* Product table: id -> the fields of ProductDefaults
    category_attributes,  \* CategoryAttribute table: category id -> set of keys
    legacy_attribute_set, \* ProductAttribute rows [product, key, value]
    attribute_values,     \* ProductAttributeValue rows [product, attribute, attribute_value, custom_value]
    edits,                \* number of store mutations performed so far
    calls,                \* per worker: the call it is in the middle of
    response              \* outcome of the last operation

vars == <<categories, products, category_attributes, legacy_attribute_set,
          attribute_values, edits, calls, response>>

store == <<categories, products, category_attributes, legacy_attribute_set,
           attribute_values>>

----------------------------------------------------------------------------
(* Bounds *)

MaxCategory == 3
MaxProduct == 2
MaxEdits == 3
\* Depth of nested get_all_subcategories calls the interpreter allows before
\* it raises RecursionError (CPython: sys.getrecursionlimit(), scaled down).
RecursionLimit == 6
MaxWorker == 2

Categories == 1..MaxCategory
Products == 1..MaxProduct

\* The workers that serve requests side by side, and a worker that is in
\* the middle of no call.
Workers == 1..MaxWorker
Idle == [pc |-> "idle"]
NoCalls == [w \in Workers |-> Idle]

\* A NULL foreign key.
NoId == 0
\* Python None in a string-valued position.
None == "<None>"

CATEGORY_TYPES == {"container", "direct", "auto"}

\* A NULL price (price_usd and price are nullable).
NullPrice == -1

\* A Product row with the field defaults of the model; created_at is set
\* when the row is created. After a save price equals price_toman.
ProductDefaults ==
    [category |-> 1, is_active |-> TRUE, name |-> "", description |-> "",
     sku |-> "", model |-> "", price |-> 0, price_toman |-> 0,
     price_usd |-> NullPrice, is_new_arrival |-> FALSE, created_at |-> 0]

----------------------------------------------------------------------------
(* Category tree: shop/models.py class Category *)

\* self.subcategories.all(): reverse side of Category.parent
subcategories(c) == {d \in Categories : categories[d].parent = c}

\* self.product_set.filter(is_active=True)
active_product_set(c) ==
    {p \in Products : products[p].category = c /\ products[p].is_active}

\* list(queryset): the rows of a queryset as a list, in id order
RECURSIVE QuerysetList(_)
QuerysetList(S) ==
    IF S = {} THEN <<>>
    ELSE LET m == CHOOSE x \in S : \A y \in S : x <= y
         IN <<m>> \o QuerysetList(S \ {m})

Range(s) == {s[i] : i \in 1..Len(s)}

\* get_all_subcategories without the recursive extend: direct children only
get_all_subcategories_at_children_only(c, depth) ==
    [error |-> "", value |-> QuerysetList(subcategories(c))]

\* Category.get_all_subcategories, called at nesting depth `depth`.
\* Returns [error, value]: error is "RecursionError" when the nesting
\* exceeds the interpreter's limit (the exception propagates through every
\* caller), otherwise "" and value is the returned list.
RECURSIVE get_all_subcategories_at(_, _)
RECURSIVE extend_subcategories(_, _, _)
extend_subcategories(direct, i, depth) ==
    \* for subcategory in list(subcategories): subcategories.extend(...)
    IF i > Len(direct) THEN [error |-> "", value |-> <<>>]
    ELSE LET r == get_all_subcategories_at(direct[i], depth + 1)
         IN IF r.error # "" THEN r
            ELSE LET rest == extend_subcategories(direct, i + 1, depth)
                 IN IF rest.error # "" THEN rest
                    ELSE [error |-> "", value |-> r.value \o rest.value]
get_all_subcategories_at(c, depth) ==
    IF depth > RecursionLimit
    THEN [error |-> "RecursionError", value |-> <<>>]
    ELSE LET direct == QuerysetList(subcategories(c))
             ext == extend_subcategories(direct, 1, depth)
         IN IF ext.error # "" THEN ext
            ELSE [error |-> "", value |-> direct \o ext.value]

get_all_subcategories(c) == get_all_subcategories_at(c, 1)

\* get_effective_category_type with the mixed case resolved to direct
get_effective_category_type_mixed_direct(c) ==
    IF categories[c].category_type # "auto"
    THEN categories[c].category_type
    ELSE IF subcategories(c) # {} /\ active_product_set(c) = {}
         THEN "container" ELSE "direct"

\* Category.get_effective_category_type
get_effective_category_type(c) ==
    IF categories[c].category_type # "auto"
    THEN categories[c].category_type
    ELSE LET has_subcategories == subcategories(c) # {}
             has_direct_products == active_product_set(c) # {}
         IN IF has_subcategories /\ ~has_direct_products THEN "container"
            ELSE IF ~has_subcategories /\ has_direct_products THEN "direct"
            ELSE IF has_subcategories /\ has_direct_products THEN "container"
            ELSE "direct"

is_container_category(c) == get_effective_category_type(c) = "container"

\* Category.get_all_products: [error, value] with value the queryset's rows
get_all_products(c) ==
    IF is_container_category(c)
    THEN LET all_subcategories == get_all_subcategories(c)
         IN IF all_subcategories.error # ""
            THEN [error |-> all_subcategories.error, value |-> {}]
            ELSE [error |-> "",
                  value |-> {p \in Products :
                               /\ \/ products[p].category = c
                                  \/ products[p].category \in Range(all_subcategories.value)
                               /\ products[p].is_active}]
    ELSE [error |-> "", value |-> active_product_set(c)]

\* Category.get_product_count
get_product_count(c) ==
    LET all == get_all_products(c)
    IN [error |-> all.error, value |-> Cardinality(all.value)]

----------------------------------------------------------------------------
(* Attribute registry and the flexible store: shop/models.py *)

\* Attribute rows, identified by their unique key
Attributes == {"brand", "color"}

\* NewAttributeValue rows: the predefined choices of each Attribute
\* (unique per (attribute, value))
NewAttributeValues ==
    { [id |-> 1, attribute |-> "brand", value |-> "Nike"],
      [id |-> 2, attribute |-> "color", value |-> "Black"] }

\* attribute_value.value of the NewAttributeValue row with this id
NewAttributeValue_value(id) ==
    (CHOOSE v \in NewAttributeValues : v.id = id).value

\* Python truthiness of a nullable string
Truthy(s) == s # None /\ s # ""

\* the ProductAttributeValue rows of (product, attribute); at most one
\* (unique_together)
attribute_values_of(p, key) ==
    {r \in attribute_values : r.product = p /\ r.attribute = key}

\* get_display_value that reads custom_value whatever attribute_value is
get_display_value_custom_only(row) ==
    IF Truthy(row.custom_value) THEN row.custom_value ELSE ""

\* get_display_value that prefers custom_value when both fields are set
get_display_value_custom_first(row) ==
    IF Truthy(row.custom_value) THEN row.custom_value
    ELSE IF row.attribute_value # NoId
         THEN NewAttributeValue_value(row.attribute_value)
         ELSE ""

\* ProductAttributeValue.get_display_value
get_display_value(row) ==
    IF row.attribute_value # NoId
    THEN NewAttributeValue_value(row.attribute_value)
    ELSE IF Truthy(row.custom_value) THEN row.custom_value ELSE ""

\* ProductAttributeValueSerializer.get_value
get_value(row) ==
    IF row.attribute_value # NoId
    THEN NewAttributeValue_value(row.attribute_value)
    ELSE row.custom_value

\* ProductAttributeValue.clean: TRUE when the row passes validation
clean(row) ==
    /\ ~(row.attribute_value = NoId /\ ~Truthy(row.custom_value))
    /\ ~(row.attribute_value # NoId /\ Truthy(row.custom_value))

\* Product.get_attribute_value
get_attribute_value(p, attribute_key) ==
    IF attribute_key \notin Attributes THEN None
    ELSE IF attribute_values_of(p, attribute_key) = {} THEN None
    ELSE get_display_value(CHOOSE r \in attribute_values_of(p, attribute_key) : TRUE)

\* set_attribute_value that stores the value of an unregistered key as a
\* custom value instead of failing
set_attribute_value_unchecked_key(p, attribute_key, value) ==
    LET existing == attribute_values_of(p, attribute_key)
    IN [error |-> IF attribute_key \in Attributes THEN "" ELSE "ValueError",
        rows |-> (attribute_values \ existing)
                    \cup {[product |-> p, attribute |-> attribute_key,
                           attribute_value |-> NoId, custom_value |-> value]}]

\* Product.set_attribute_value: [error, rows] with rows the
\* ProductAttributeValue table after the call
set_attribute_value(p, attribute_key, value) ==
    IF attribute_key \notin Attributes
    THEN [error |-> "ValueError", rows |-> attribute_values]
    ELSE LET existing == attribute_values_of(p, attribute_key)
             \* get_or_create(product, attribute, defaults={})
             product_attr ==
                 IF existing # {} THEN CHOOSE r \in existing : TRUE
                 ELSE [product |-> p, attribute |-> attribute_key,
                       attribute_value |-> NoId, custom_value |-> None]
             matching == {v \in NewAttributeValues :
                            v.attribute = attribute_key /\ v.value = value}
             saved ==
                 IF matching # {}
                 THEN [product_attr EXCEPT
                          !.attribute_value = (CHOOSE v \in matching : TRUE).id,
                          !.custom_value = None]
                 ELSE [product_attr EXCEPT
                          !.attribute_value = NoId,
                          !.custom_value = value]
         IN [error |-> "", rows |-> (attribute_values \ existing) \cup {saved}]

\* ProductAttributeValue.objects.get_or_create(product, attribute,
\* defaults={}): [row, rows] with row the instance returned and rows the
\* table after the call; a created row has neither value
get_or_create(p, attribute_key) ==
    LET existing == attribute_values_of(p, attribute_key)
        created == [product |-> p, attribute |-> attribute_key,
                    attribute_value |-> NoId, custom_value |-> None]
    IN IF existing # {}
       THEN [row |-> CHOOSE r \in existing : TRUE, rows |-> attribute_values]
       ELSE [row |-> created, rows |-> attribute_values \cup {created}]

\* the assignments of set_attribute_value to the fetched instance: the
\* predefined choice with this value when there is one, else the custom
\* value
assign_value(product_attr, value) ==
    LET matching == {v \in NewAttributeValues :
                       v.attribute = product_attr.attribute /\ v.value = value}
    IN IF matching # {}
       THEN [product_attr EXCEPT
                !.attribute_value = (CHOOSE v \in matching : TRUE).id,
                !.custom_value = None]
       ELSE [product_attr EXCEPT
                !.attribute_value = NoId, !.custom_value = value]

\* Product.get_attributes_dict: key -> display value over the product's
\* ProductAttributeValue rows
get_attributes_dict(p) ==
    [k \in {r.attribute : r \in {r \in attribute_values : r.product = p}}
        |-> get_display_value(CHOOSE r \in attribute_values_of(p, k) : TRUE)]

----------------------------------------------------------------------------
(* Product serializer: shop/serializers.py *)

\* the key under which the storefront's first data stored the brand (the
\* Persian word for brand), written in Latin letters
BRAND_FA == "barand"

\* if key == BRAND_FA: key = 'brand'
renamed(key) == IF key = BRAND_FA THEN "brand" ELSE key

\* the orders in which the database may return the rows of S
row_orders(S) ==
    {order \in [1..Cardinality(S) -> S] :
        \A i, j \in 1..Cardinality(S) : order[i] = order[j] => i = j}

\* the {'key', 'value'} entries of the flexible rows, empty values left out
flexible_entries(flexible_rows) ==
    SelectSeq([i \in 1..Len(flexible_rows) |->
                  [key |-> renamed(flexible_rows[i].attribute),
                   value |-> get_display_value(flexible_rows[i])]],
              LAMBDA entry : entry.value # "")

\* the {'key', 'value'} entries of the legacy rows, empty values left out
legacy_entries(legacy_rows) ==
    SelectSeq([i \in 1..Len(legacy_rows) |->
                  [key |-> renamed(legacy_rows[i].key),
                   value |-> legacy_rows[i].value]],
              LAMBDA entry : entry.value # "")

\* Remove duplicates (keep first occurrence), then keep the keys defined
\* for the product's category when it defines any
unique_allowed(attributes, allowed_keys) ==
    LET unique_attributes[i \in 0..Len(attributes)] ==
            IF i = 0 THEN <<>>
            ELSE IF \E j \in 1..Len(unique_attributes[i - 1]) :
                       unique_attributes[i - 1][j].key = attributes[i].key
                 THEN unique_attributes[i - 1]
                 ELSE Append(unique_attributes[i - 1], attributes[i])
    IN IF allowed_keys # {}
       THEN SelectSeq(unique_attributes[Len(attributes)],
                      LAMBDA entry : entry.key \in allowed_keys)
       ELSE unique_attributes[Len(attributes)]

\* get_attributes that collects the legacy rows before the flexible rows
get_attributes_legacy_first(p, flexible_rows, legacy_rows) ==
    unique_allowed(legacy_entries(legacy_rows) \o flexible_entries(flexible_rows),
                   category_attributes[products[p].category])

\* ProductSerializer.get_attributes; flexible_rows and legacy_rows are the
\* rows of the product in the order the database returns them
get_attributes(p, flexible_rows, legacy_rows) ==
    unique_allowed(flexible_entries(flexible_rows) \o legacy_entries(legacy_rows),
                   category_attributes[products[p].category])

----------------------------------------------------------------------------
(* Filter views: shop/api_views.py *)

\* A request's query string is a multi-valued dictionary: a function from
\* the parameter names present to the non-empty list of values sent for it.

\* QueryDict.get(key): the last value sent for the key
QueryGet(query_params, key) == query_params[key][Len(query_params[key])]

\* `not v.strip()`: the value is empty or whitespace only
IsBlank(v) == v \in {"", " "}

\* [v for v in values if v.strip()]
NonBlank(values) == SelectSeq(values, LAMBDA v : ~IsBlank(v))

\* Decimal literals accepted by int(): DecimalLiterals[n] is the text of n
DecimalLiterals == <<"1", "2", "3", "4", "5">>
\* further literals int() accepts, with their values
IntLiterals ==
    ("0" :> 0) @@ ("999" :> 999) @@ ("1000" :> 1000) @@ ("-1" :> -1)
IsInt(s) ==
    \/ \E n \in DOMAIN DecimalLiterals : DecimalLiterals[n] = s
    \/ s \in DOMAIN IntLiterals
int(s) ==
    IF s \in DOMAIN IntLiterals THEN IntLiterals[s]
    ELSE CHOOSE n \in DOMAIN DecimalLiterals : DecimalLiterals[n] = s

\* Literals float() accepts, with their values; any other text raises
\* ValueError
FloatLiterals ==
    ("80000" :> 80000) @@ ("100000" :> 100000) @@ ("150000" :> 150000)
        @@ ("200000" :> 200000) @@ ("300000" :> 300000)
IsFloat(s) == s \in DOMAIN FloatLiterals
float(s) == FloatLiterals[s]

\* str.lower() on the texts that occur in requests and product fields
LowerCased ==
    ("True" :> "true") @@ ("FALSE" :> "false") @@ ("No" :> "no")
        @@ ("Nike" :> "nike") @@ ("Air" :> "air") @@ ("IK" :> "ik")
        @@ ("NK1" :> "nk1")
lower(s) == IF s \in DOMAIN LowerCased THEN LowerCased[s] ELSE s

\* the characters of a lower-case text
Chars ==
    ("" :> <<>>) @@ ("nike" :> <<"n", "i", "k", "e">>)
        @@ ("air" :> <<"a", "i", "r">>) @@ ("ik" :> <<"i", "k">>)
        @@ ("nk1" :> <<"n", "k", "1">>)

\* field__icontains=query: query occurs in the field, case aside
icontains(field, query) ==
    LET text == Chars[lower(field)]
        word == Chars[lower(query)]
    IN \E start \in 0..(Len(text) - Len(word)) :
          \A i \in 1..Len(word) : text[start + i] = word[i]

\* Q(name__icontains) | Q(description__icontains) | Q(sku__icontains)
\*     | Q(model__icontains)
search_matches(row, search_query) ==
    \/ icontains(row.name, search_query)
    \/ icontains(row.description, search_query)
    \/ icontains(row.sku, search_query)
    \/ icontains(row.model, search_query)

\* is_new_arrival.lower() in [...], is_active.lower() in [...]
TRUE_WORDS == {"true", "1", "yes"}
FALSE_WORDS == {"false", "0", "no"}

\* key in ['price__gte', 'price__lte', ...]
PRICE_KEYS == {"price__gte", "price__lte", "price_toman__gte",
               "price_toman__lte", "price_usd__gte", "price_usd__lte"}

\* key in ['category', 'q', 'search', 'page', 'per_page', ...]
SPECIAL_KEYS == {"category", "q", "search", "page", "per_page",
                 "is_new_arrival", "is_active"}

\* products.filter(**{price_key: price_value}): the field and the lookup a
\* price key names
PRICE_LOOKUPS ==
    [price__gte |-> [field |-> "price", lookup |-> "gte"],
     price__lte |-> [field |-> "price", lookup |-> "lte"],
     price_toman__gte |-> [field |-> "price_toman", lookup |-> "gte"],
     price_toman__lte |-> [field |-> "price_toman", lookup |-> "lte"],
     price_usd__gte |-> [field |-> "price_usd", lookup |-> "gte"],
     price_usd__lte |-> [field |-> "price_usd", lookup |-> "lte"]]

\* row passes filter(**{price_key: bound}); a NULL price passes no lookup
price_lookup_holds(row, price_key, bound) ==
    LET l == PRICE_LOOKUPS[price_key]
    IN /\ row[l.field] # NullPrice
       /\ IF l.lookup = "gte" THEN row[l.field] >= bound
          ELSE row[l.field] <= bound

\* apply_price_filters where a value that is no number matches no product
apply_price_filters_malformed_fails(result, price_filters) ==
    {p \in result :
        \A k \in DOMAIN price_filters :
            /\ IsFloat(price_filters[k])
            /\ price_lookup_holds(products[p], k, float(price_filters[k]))}

\* apply_price_filters that excludes the bound itself
apply_price_filters_exclusive(result, price_filters) ==
    {p \in result :
        \A k \in DOMAIN price_filters :
            IsFloat(price_filters[k])
            => LET l == PRICE_LOOKUPS[k]
               IN /\ products[p][l.field] # NullPrice
                  /\ IF l.lookup = "gte"
                     THEN products[p][l.field] > float(price_filters[k])
                     ELSE products[p][l.field] < float(price_filters[k])}

\* for price_key, price_value in price_filters.items():
\*     try: products = products.filter(**{price_key: float(price_value)})
\*     except (ValueError, TypeError): continue
apply_price_filters(result, price_filters) ==
    {p \in result :
        \A k \in DOMAIN price_filters :
            IsFloat(price_filters[k])
            => price_lookup_holds(products[p], k, float(price_filters[k]))}

\* the price keys of the query that carry a non-blank value, each with its
\* last value
collect_price_filters(query_params, attribute_keys) ==
    [k \in {k \in DOMAIN query_params :
               /\ k \notin attribute_keys
               /\ k \in PRICE_KEYS
               /\ ~IsBlank(QueryGet(query_params, k))}
        |-> QueryGet(query_params, k)]

\* field=values[0] for a single value, field__in=values otherwise
Matches(x, values) ==
    IF Len(values) = 1 THEN x = values[1] ELSE x \in Range(values)

\* candidates.filter(legacy_attribute_set__key=k, legacy_attribute_set__value...)
matching_ids_legacy(candidates, attr_key, values) ==
    {p \in candidates :
        \E r \in legacy_attribute_set :
            r.product = p /\ r.key = attr_key /\ Matches(r.value, values)}

\* candidates.filter(attribute_values__attribute__key=k,
\*                   attribute_values__attribute_value__value...)
matching_ids_new(candidates, attr_key, values) ==
    {p \in candidates :
        \E r \in attribute_values :
            /\ r.product = p /\ r.attribute = attr_key
            /\ r.attribute_value # NoId
            /\ Matches(NewAttributeValue_value(r.attribute_value), values)}

\* candidates.filter(attribute_values__attribute__key=k,
\*                   attribute_values__custom_value...)
matching_ids_custom(candidates, attr_key, values) ==
    {p \in candidates :
        \E r \in attribute_values :
            /\ r.product = p /\ r.attribute = attr_key
            /\ r.custom_value # None
            /\ Matches(r.custom_value, values)}

\* all_matching_ids without the custom_value matches
all_matching_ids_without_custom(candidates, attr_key, values) ==
    matching_ids_legacy(candidates, attr_key, values)
        \cup matching_ids_new(candidates, attr_key, values)

\* set(matching_ids_legacy) | set(matching_ids_new) | set(matching_ids_custom)
all_matching_ids(candidates, attr_key, values) ==
    matching_ids_legacy(candidates, attr_key, values)
        \cup matching_ids_new(candidates, attr_key, values)
        \cup matching_ids_custom(candidates, attr_key, values)

\* for attr_key, values in multi_value_filters.items():
\*     products = products.filter(id__in=all_matching_ids)
RECURSIVE apply_attribute_filters(_, _, _, _)
apply_attribute_filters(result, candidates, multi_value_filters, keys) ==
    IF keys = {} THEN result
    ELSE LET attr_key == CHOOSE k \in keys : TRUE
         IN apply_attribute_filters(
                result \cap all_matching_ids(candidates, attr_key,
                                             multi_value_filters[attr_key]),
                candidates, multi_value_filters, keys \ {attr_key})

\* the keys of the query that are attribute keys and carry a non-blank value,
\* each with its non-blank values
collect_multi_value_filters(query_params, attribute_keys) ==
    [k \in {k \in DOMAIN query_params :
               k \in attribute_keys /\ NonBlank(query_params[k]) # <<>>}
        |-> NonBlank(query_params[k])]

\* ProductPagination: page_size and max_page_size, scaled to the size of
\* the catalog (page_size = 20, max_page_size = 100 in the source)
page_size == 1
max_page_size == 1

Min(a, b) == IF a <= b THEN a ELSE b

\* S.order_by('-created_at'): the orders in which the database may return
\* the rows of S; rows with equal created_at come in any order
RECURSIVE order_by_created_at_desc(_)
order_by_created_at_desc(S) ==
    IF S = {} THEN {<<>>}
    ELSE LET latest == {p \in S : \A q \in S :
                           products[p].created_at >= products[q].created_at}
         IN UNION {{<<p>> \o rest : rest \in order_by_created_at_desc(S \ {p})}
                   : p \in latest}

\* the rows of a queryset that is joined with the attribute tables and not
\* made distinct: one row per attribute row of each product
ordered_joined(filtered, row_order) ==
    LET base == SelectSeq(row_order, LAMBDA p : p \in filtered)
        copies(p) ==
            LET n == Cardinality({r \in legacy_attribute_set : r.product = p})
                        + Cardinality({r \in attribute_values : r.product = p})
            IN IF n = 0 THEN 1 ELSE n
        joined[i \in 0..Len(base)] ==
            IF i = 0 THEN <<>>
            ELSE joined[i - 1] \o [j \in 1..copies(base[i]) |-> base[i]]
    IN joined[Len(base)]

\* products.distinct().order_by('-created_at') of a queryset filtered by
\* id__in: the rows of a filtered queryset in the database's order
ordered(filtered, row_order) == SelectSeq(row_order, LAMBDA p : p \in filtered)

\* PageNumberPagination.get_page_size: per_page when it is a positive
\* integer, cut off at max_page_size; page_size otherwise
get_page_size(query_params) ==
    IF /\ "per_page" \in DOMAIN query_params
       /\ IsInt(QueryGet(query_params, "per_page"))
       /\ int(QueryGet(query_params, "per_page")) > 0
    THEN Min(int(QueryGet(query_params, "per_page")), max_page_size)
    ELSE page_size

\* Paginator.num_pages: an empty list has one (empty) page
num_pages(count, per_page) ==
    IF count = 0 THEN 1 ELSE (count + per_page - 1) \div per_page

\* Paginator.page(number).object_list
page_slice(rows, number, per_page) ==
    SubSeq(rows, (number - 1) * per_page + 1, Min(number * per_page, Len(rows)))

\* the pagination block of a response
pagination_block(number, total_pages, count) ==
    [current_page |-> number, total_pages |-> total_pages,
     total_items |-> count, has_next |-> number < total_pages,
     has_previous |-> number > 1]

\* a response without a pagination block
NoPagination == pagination_block(0, 0, 0)

\* ProductPagination.paginate_queryset: [error, items, pagination]. The page
\* parameter must be an integer of 1..num_pages (or 'last'); anything else
\* raises NotFound.
paginate_queryset(rows, query_params) ==
    LET per_page == get_page_size(query_params)
        total_pages == num_pages(Len(rows), per_page)
        page_number ==
            IF "page" \in DOMAIN query_params
            THEN QueryGet(query_params, "page") ELSE "1"
        number ==
            IF page_number = "last" THEN total_pages
            ELSE IF IsInt(page_number) THEN int(page_number) ELSE 0
    IN IF number < 1 \/ number > total_pages
       THEN [error |-> "NotFound", items |-> <<>>, pagination |-> NoPagination]
       ELSE [error |-> "",
             items |-> page_slice(rows, number, per_page),
             pagination |-> pagination_block(number, total_pages, Len(rows))]

\* an error response: no product list and no pagination block
error_response(status, body) ==
    [status |-> status, body |-> body, products |-> {}, total_items |-> 0,
     filters_applied |-> [k \in {} |-> <<>>],
     price_filters |-> [k \in {} |-> ""], rows |-> <<>>,
     page_items |-> <<>>, pagination |-> NoPagination]

\* no_valid_filters that also holds for a request without any parameter
no_valid_filters_without_query(query_params, multi_value_filters, price_filters) ==
    DOMAIN multi_value_filters = {} /\ DOMAIN price_filters = {}

\* if query_params and not multi_value_filters and not price_filters
no_valid_filters(query_params, multi_value_filters, price_filters) ==
    /\ DOMAIN query_params # {}
    /\ DOMAIN multi_value_filters = {}
    /\ DOMAIN price_filters = {}

\* CategoryProductFilterView.get; row_order is the order in which the
\* database returns the rows
CategoryProductFilterView_get(category_id, query_params, row_order) ==
    IF category_id \notin Categories
    THEN error_response(404, {"error"})
    ELSE
    LET valid_attribute_keys == category_attributes[category_id]
        multi_value_filters ==
            collect_multi_value_filters(query_params, valid_attribute_keys)
        price_filters ==
            collect_price_filters(query_params, valid_attribute_keys)
        in_category == {p \in Products : products[p].category = category_id}
        category_products == {p \in in_category : products[p].is_active}
        priced == apply_price_filters(category_products, price_filters)
        filtered ==
            apply_attribute_filters(priced, in_category, multi_value_filters,
                                    DOMAIN multi_value_filters)
        rows == ordered(filtered, row_order)
        page == paginate_queryset(rows, query_params)
    IN IF no_valid_filters(query_params, multi_value_filters, price_filters)
       THEN \* Return empty result if no valid filters
            [status |-> 200, body |-> {"products", "pagination"},
             products |-> {}, total_items |-> 0,
             filters_applied |-> [k \in {} |-> <<>>],
             price_filters |-> [k \in {} |-> ""], rows |-> <<>>,
             page_items |-> <<>>, pagination |-> pagination_block(1, 1, 0)]
       ELSE IF page.error # ""
       THEN error_response(404, {"detail"})
       ELSE [status |-> 200,
             body |-> {"products", "pagination", "filters_applied",
                       "price_filters_applied"},
             products |-> filtered, total_items |-> Cardinality(filtered),
             filters_applied |-> multi_value_filters,
             price_filters |-> price_filters, rows |-> rows,
             page_items |-> page.items, pagination |-> page.pagination]

\* ProductsFilterView.get; row_order is the order in which the database
\* returns the rows. A price key is any key of PRICE_KEYS (the view accepts
\* every key that starts with 'price' and contains '__gte' or '__lte').
ProductsFilterView_get(query_params, row_order) ==
    LET active == {p \in Products : products[p].is_active}
        legacy_keys ==
            {r.key : r \in {r \in legacy_attribute_set : r.product \in active}}
        new_keys ==
            {r.attribute : r \in {r \in attribute_values : r.product \in active}}
        all_attribute_keys == {k \in legacy_keys \cup new_keys : Truthy(k)}
        multi_value_filters ==
            collect_multi_value_filters(query_params, all_attribute_keys)
        price_filters == collect_price_filters(query_params, all_attribute_keys)
        special_filters ==
            [k \in {k \in DOMAIN query_params :
                       /\ k \notin all_attribute_keys
                       /\ k \notin PRICE_KEYS
                       /\ k \in SPECIAL_KEYS
                       /\ ~IsBlank(QueryGet(query_params, k))}
                |-> QueryGet(query_params, k)]
        \* products.filter(category_id=int(special_filters['category']))
        by_category(result) ==
            IF "category" \in DOMAIN special_filters
               /\ IsInt(special_filters["category"])
            THEN {p \in result :
                    products[p].category = int(special_filters["category"])}
            ELSE result
        \* special_filters.get('q') or special_filters.get('search')
        search_query ==
            IF "q" \in DOMAIN special_filters THEN special_filters["q"]
            ELSE IF "search" \in DOMAIN special_filters
                 THEN special_filters["search"] ELSE None
        searched ==
            IF search_query # None
            THEN {p \in by_category(active) : search_matches(products[p], search_query)}
            ELSE by_category(active)
        new_arrivals ==
            IF "is_new_arrival" \notin DOMAIN special_filters THEN searched
            ELSE IF lower(special_filters["is_new_arrival"]) \in TRUE_WORDS
                 THEN {p \in searched : products[p].is_new_arrival}
            ELSE IF lower(special_filters["is_new_arrival"]) \in FALSE_WORDS
                 THEN {p \in searched : ~products[p].is_new_arrival}
            ELSE searched
        \* Start over without the is_active=True filter; only the category
        \* filter is re-applied
        status_applied ==
            IF "is_active" \in DOMAIN special_filters
               /\ lower(special_filters["is_active"]) \in FALSE_WORDS
            THEN by_category({p \in Products : ~products[p].is_active})
            ELSE new_arrivals
        priced == apply_price_filters(status_applied, price_filters)
        filtered ==
            apply_attribute_filters(priced, Products, multi_value_filters,
                                    DOMAIN multi_value_filters)
        rows == ordered(filtered, row_order)
        page == paginate_queryset(rows, query_params)
    IN IF page.error # ""
       THEN error_response(404, {"detail"})
       ELSE [status |-> 200,
             body |-> {"products", "pagination", "filters_applied",
                       "available_attributes"},
             products |-> filtered, total_items |-> Cardinality(filtered),
             filters_applied |-> multi_value_filters,
             price_filters |-> price_filters, rows |-> rows,
             page_items |-> page.items, pagination |-> page.pagination]

----------------------------------------------------------------------------
(* Search view: shop/views.py *)

\* per_page of api_advanced_search when the request names none, scaled to
\* the size of the catalog (24 in the source)
search_per_page == 1

\* request.GET.get(key, default)
GET_get(query_params, key, default) ==
    IF key \in DOMAIN query_params THEN QueryGet(query_params, key) ELSE default

\* api_advanced_search for requests that carry q, min_price_toman,
\* max_price_toman, category, is_active, page and per_page; row_order is the
\* order in which the database returns the rows. Any exception ends in a
\* 500 response.
api_advanced_search(query_params, row_order) ==
    LET search_query == GET_get(query_params, "q", "")
        min_price_toman == GET_get(query_params, "min_price_toman", "")
        max_price_toman == GET_get(query_params, "max_price_toman", "")
        category_id == GET_get(query_params, "category", "")
        is_active == GET_get(query_params, "is_active", "")
        page == GET_get(query_params, "page", "1")
        queryset ==
            {p \in Products :
                /\ search_query # "" => search_matches(products[p], search_query)
                /\ min_price_toman # ""
                      => products[p].price_toman >= float(min_price_toman)
                /\ max_price_toman # ""
                      => products[p].price_toman <= float(max_price_toman)
                /\ category_id # "" => products[p].category = int(category_id)
                /\ is_active = "true" => products[p].is_active
                /\ is_active = "false" => ~products[p].is_active}
        rows == ordered(queryset, row_order)
        \* int(request.GET.get('per_page', 24))
        per_page ==
            IF "per_page" \in DOMAIN query_params
            THEN int(QueryGet(query_params, "per_page")) ELSE search_per_page
        total_pages == num_pages(Len(rows), per_page)
        \* try: paginator.page(page) except: paginator.page(1)
        number ==
            IF IsInt(page) /\ int(page) >= 1 /\ int(page) <= total_pages
            THEN int(page) ELSE 1
    IN IF \/ min_price_toman # "" /\ ~IsFloat(min_price_toman)
          \/ max_price_toman # "" /\ ~IsFloat(max_price_toman)
          \/ category_id # "" /\ ~IsInt(category_id)
          \/ "per_page" \in DOMAIN query_params
                /\ ~IsInt(QueryGet(query_params, "per_page"))
       THEN error_response(500, {"error"})
       ELSE IF per_page = 0
       THEN \* ZeroDivisionError in Paginator.num_pages
            error_response(500, {"error"})
       ELSE [status |-> 200, body |-> {"products", "pagination"},
             products |-> queryset, total_items |-> Cardinality(queryset),
             filters_applied |-> [k \in {} |-> <<>>],
             price_filters |-> [k \in {} |-> ""], rows |-> rows,
             page_items |-> page_slice(rows, number, per_page),
             pagination |-> pagination_block(number, total_pages, Len(rows))]

----------------------------------------------------------------------------
(* New arrivals: shop/views.py, shop/models.py *)

\* api_new_arrivals: the limit used when the request names none or one
\* that is no number, and the largest limit, scaled to the size of the
\* catalog (10 and 50 in the source)
default_limit == 1
max_limit == 1

\* Product.get_new_arrivals(limit): [error, rows]. A limit of 0 is falsy
\* and slices nothing; a negative limit makes the slice raise.
get_new_arrivals(limit, row_order) ==
    LET queryset ==
            ordered({p \in Products :
                        products[p].is_new_arrival /\ products[p].is_active},
                    row_order)
    IN IF limit = 0 THEN [error |-> "", rows |-> queryset]
       ELSE IF limit < 0 THEN [error |-> "ValueError", rows |-> <<>>]
       ELSE [error |-> "", rows |-> SubSeq(queryset, 1, Min(limit, Len(queryset)))]

\* api_new_arrivals: [status, products]
api_new_arrivals(query_params, row_order) ==
    LET sent == "limit" \in DOMAIN query_params
        text == IF sent THEN QueryGet(query_params, "limit") ELSE ""
        \* limit = int(limit) if limit else 10; limit = min(limit, 50);
        \* except (ValueError, TypeError): limit = 10
        limit ==
            IF ~sent \/ text = "" THEN Min(default_limit, max_limit)
            ELSE IF IsInt(text) THEN Min(int(text), max_limit)
            ELSE default_limit
        new_arrivals == get_new_arrivals(limit, row_order)
    IN IF new_arrivals.error # ""
       THEN [status |-> 500, products |-> <<>>]
       ELSE [status |-> 200, products |-> new_arrivals.rows]

----------------------------------------------------------------------------
(* Store mutations *)

\* the cleanup skipped when the new category defines no attribute
cleanup_attributes_on_category_change_skip_empty(p, new_category) ==
    LET valid_keys == category_attributes[new_category]
        invalid_attributes ==
            {r \in legacy_attribute_set : r.product = p /\ r.key \notin valid_keys}
    IN IF valid_keys = {} THEN legacy_attribute_set
       ELSE legacy_attribute_set \ invalid_attributes

\* the cleanup run over the legacy rows of every product
cleanup_attributes_on_category_change_every_product(p, new_category) ==
    LET valid_keys == category_attributes[new_category]
    IN {r \in legacy_attribute_set : r.key \in valid_keys}

\* Product._cleanup_attributes_on_category_change: the legacy rows that
\* remain after the cleanup for product p moving to category new_category
cleanup_attributes_on_category_change(p, new_category) ==
    LET valid_keys == category_attributes[new_category]
        invalid_attributes ==
            {r \in legacy_attribute_set : r.product = p /\ r.key \notin valid_keys}
    IN legacy_attribute_set \ invalid_attributes

\* cleanup_product_attributes (POST): the legacy rows that remain after
\* every legacy row of the product whose key is not a CategoryAttribute key
\* of its category is deleted
cleanup_product_attributes(product_id) ==
    LET valid_keys == category_attributes[products[product_id].category]
        attributes_to_remove ==
            {r \in legacy_attribute_set :
                r.product = product_id /\ r.key \notin valid_keys}
    IN legacy_attribute_set \ attributes_to_remove

\* Product.save, price part: a legacy price moves to price_toman while
\* price_toman still has its default, then price is synced to price_toman
\* (price_currency is TOMAN throughout)
save_prices(row) ==
    LET migrated ==
            IF row.price # NullPrice /\ row.price_toman = 0
            THEN [row EXCEPT !.price_toman = row.price]
            ELSE row
    IN IF migrated.price \in {NullPrice, 0}
          \/ migrated.price # migrated.price_toman
       THEN [migrated EXCEPT !.price = migrated.price_toman]
       ELSE migrated

\* Product.save of an existing product with the given category and
\* is_active (admin product form)
SaveProduct(p, new_category, is_active) ==
    /\ edits < MaxEdits
    /\ legacy_attribute_set' =
          IF products[p].category # new_category
          THEN cleanup_attributes_on_category_change(p, new_category)
          ELSE legacy_attribute_set
    /\ products' = [products EXCEPT ![p] =
                       save_prices([products[p] EXCEPT
                                       !.category = new_category,
                                       !.is_active = is_active])]
    /\ edits' = edits + 1
    /\ response' = [op |-> "Product.save", product |-> p]
    /\ UNCHANGED <<categories, category_attributes, attribute_values, calls>>

\* Product.save of an existing product with one field other than category
\* changed (admin product form)
SaveProductField(p, field, value) ==
    /\ edits < MaxEdits
    /\ products' = [products EXCEPT ![p] =
                       save_prices([products[p] EXCEPT ![field] = value])]
    /\ edits' = edits + 1
    /\ response' = [op |-> "Product.save", product |-> p]
    /\ UNCHANGED <<categories, category_attributes, legacy_attribute_set,
                   attribute_values, calls>>

\* CategoryAdmin change form: saves parent and category_type of a category;
\* no validation rejects a parent that closes a cycle
SaveCategory(c, new_parent, new_type) ==
    /\ edits < MaxEdits
    /\ categories' = [categories EXCEPT ![c] =
                         [parent |-> new_parent, category_type |-> new_type]]
    /\ edits' = edits + 1
    /\ response' = [op |-> "Category.save", category |-> c]
    /\ UNCHANGED <<products, category_attributes, legacy_attribute_set,
                   attribute_values, calls>>

\* Product.set_attribute_value(attribute_key, value) on product p
SetAttributeValue(p, attribute_key, value) ==
    /\ edits < MaxEdits
    /\ LET r == set_attribute_value(p, attribute_key, value)
       IN /\ attribute_values' = r.rows
          /\ response' = [op |-> "set_attribute_value", product |-> p,
                          key |-> attribute_key, value |-> value,
                          error |-> r.error]
    /\ edits' = edits + 1
    /\ UNCHANGED <<categories, products, category_attributes,
                   legacy_attribute_set, calls>>

\* Product.set_attribute_value run by worker w outside a transaction, first
\* statement: the Attribute lookup and get_or_create, which commits the
\* created row. An unknown key ends the call with ValueError.
SetAttributeValueBegin(w, p, attribute_key, value) ==
    /\ calls[w] = Idle
    /\ IF attribute_key \notin Attributes
       THEN /\ response' = [op |-> "set_attribute_value", product |-> p,
                            key |-> attribute_key, value |-> value,
                            error |-> "ValueError"]
            /\ UNCHANGED <<attribute_values, calls>>
       ELSE LET fetched == get_or_create(p, attribute_key)
            IN /\ attribute_values' = fetched.rows
               /\ calls' = [calls EXCEPT ![w] =
                               [pc |-> "set_attribute_value",
                                product_attr |-> fetched.row, value |-> value]]
               /\ UNCHANGED response
    /\ edits' = edits + 1
    /\ UNCHANGED <<categories, products, category_attributes,
                   legacy_attribute_set>>

\* Product.set_attribute_value run by worker w, second statement: the
\* value is assigned to the fetched instance and product_attr.save()
\* writes the row
SetAttributeValueSave(w) ==
    /\ calls[w].pc = "set_attribute_value"
    /\ LET saved == assign_value(calls[w].product_attr, calls[w].value)
       IN /\ attribute_values' =
                (attribute_values
                    \ attribute_values_of(saved.product, saved.attribute))
                \cup {saved}
          /\ response' = [op |-> "set_attribute_value",
                          product |-> saved.product, key |-> saved.attribute,
                          value |-> calls[w].value, error |-> ""]
    /\ calls' = [calls EXCEPT ![w] = Idle]
    /\ UNCHANGED <<categories, products, category_attributes,
                   legacy_attribute_set, edits>>

\* Product.save run by worker w outside a transaction, first part: the
\* stored category is compared with the new one and the cleanup deletes
\* the invalid legacy rows; the product row is not written yet
SaveProductBegin(w, p, new_category, is_active) ==
    /\ calls[w] = Idle
    /\ LET remaining ==
               IF products[p].category # new_category
               THEN cleanup_attributes_on_category_change(p, new_category)
               ELSE legacy_attribute_set
       IN /\ legacy_attribute_set' = remaining
          /\ calls' = [calls EXCEPT ![w] =
                          [pc |-> "Product.save", product |-> p,
                           row |-> save_prices([products[p] EXCEPT
                                       !.category = new_category,
                                       !.is_active = is_active]),
                           removed |-> legacy_attribute_set \ remaining]]
    /\ edits' = edits + 1
    /\ UNCHANGED <<categories, products, category_attributes,
                   attribute_values, response>>

\* Product.save run by worker w, second part: super().save() writes the
\* product row
SaveProductWrite(w) ==
    /\ calls[w].pc = "Product.save"
    /\ products' = [products EXCEPT ![calls[w].product] = calls[w].row]
    /\ response' = [op |-> "Product.save", product |-> calls[w].product,
                    error |-> ""]
    /\ calls' = [calls EXCEPT ![w] = Idle]
    /\ UNCHANGED <<categories, category_attributes, legacy_attribute_set,
                   attribute_values, edits>>

\* Product.save run by worker w, second part when the database rejects the
\* write (DataError for a name over 100 characters, a lost connection):
\* the exception leaves save() and nothing more is written
SaveProductFail(w) ==
    /\ calls[w].pc = "Product.save"
    /\ response' = [op |-> "Product.save", product |-> calls[w].product,
                    error |-> "DatabaseError"]
    /\ calls' = [calls EXCEPT ![w] = Idle]
    /\ UNCHANGED <<store, edits>>

\* POST api/cleanup-product-attributes/<product_id>/
CleanupProductAttributes(product_id) ==
    /\ edits < MaxEdits
    /\ legacy_attribute_set' = cleanup_product_attributes(product_id)
    /\ edits' = edits + 1
    /\ response' = [op |-> "cleanup_product_attributes",
                    product |-> product_id,
                    removed_count |->
                        Cardinality(legacy_attribute_set
                                       \ cleanup_product_attributes(product_id))]
    /\ UNCHANGED <<categories, products, category_attributes, attribute_values,
                   calls>>

\* ProductAttribute.objects.create(product, key, value): ProductAdmin.save_model
\* and the test fixtures write legacy rows this way
CreateLegacyAttribute(p, key, value) ==
    /\ edits < MaxEdits
    /\ legacy_attribute_set' =
          legacy_attribute_set \cup {[product |-> p, key |-> key, value |-> value]}
    /\ edits' = edits + 1
    /\ response' = [op |-> "ProductAttribute.create", product |-> p]
    /\ UNCHANGED <<categories, products, category_attributes, attribute_values,
                   calls>>

----------------------------------------------------------------------------
(* Attribute reads *)

\* Product.get_attribute_value(attribute_key) on product p. `written` is the
\* value of the set_attribute_value call that immediately preceded this read
\* on the same product and key (None when there was none).
GetAttributeValue(p, attribute_key) ==
    /\ response' = [op |-> "get_attribute_value", product |-> p,
                    key |-> attribute_key,
                    result |-> get_attribute_value(p, attribute_key),
                    written |-> IF /\ response.op = "set_attribute_value"
                                   /\ response.error = ""
                                   /\ response.product = p
                                   /\ response.key = attribute_key
                                THEN response.value ELSE None]
    /\ UNCHANGED <<store, edits, calls>>

\* row.get_display_value() on a stored ProductAttributeValue row
GetDisplayValue(row) ==
    /\ response' = [op |-> "get_display_value", row |-> row,
                    result |-> get_display_value(row)]
    /\ UNCHANGED <<store, edits, calls>>

\* ProductAttributeValueSerializer(row).data['value'] of a stored row
SerializeAttributeValue(row) ==
    /\ response' = [op |-> "get_value", row |-> row, result |-> get_value(row)]
    /\ UNCHANGED <<store, edits, calls>>

\* product.attribute_values.all() read by a request: the rows of product p
\* as they are stored at that moment
ReadAttributeValues(p) ==
    /\ response' = [op |-> "attribute_values.all", product |-> p,
                    rows |-> {r \in attribute_values : r.product = p}]
    /\ UNCHANGED <<store, edits, calls>>

\* Product.objects.get(id=p) with product.legacy_attribute_set.all(), read
\* by a request
ReadProduct(p) ==
    /\ response' = [op |-> "Product.objects.get", product |-> p,
                    category |-> products[p].category,
                    legacy |-> {r \in legacy_attribute_set : r.product = p}]
    /\ UNCHANGED <<store, edits, calls>>

\* ProductSerializer(product p).data['attributes']
SerializeAttributes(p) ==
    /\ \E flexible_rows \in row_orders({r \in attribute_values : r.product = p}),
          legacy_rows \in row_orders({r \in legacy_attribute_set : r.product = p}) :
          response' = [op |-> "get_attributes", product |-> p,
                       result |-> get_attributes(p, flexible_rows, legacy_rows)]
    /\ UNCHANGED <<store, edits, calls>>

\* Product.get_attributes_dict() on product p
GetAttributesDict(p) ==
    /\ response' = [op |-> "get_attributes_dict", product |-> p,
                    result |-> get_attributes_dict(p)]
    /\ UNCHANGED <<store, edits, calls>>

----------------------------------------------------------------------------
(* Category tree reads *)

GetEffectiveCategoryType(c) ==
    /\ response' = [op |-> "get_effective_category_type", category |-> c,
                    result |-> get_effective_category_type(c)]
    /\ UNCHANGED <<store, edits, calls>>

GetAllSubcategories(c) ==
    /\ LET r == get_all_subcategories(c)
       IN response' = [op |-> "get_all_subcategories", category |-> c,
                       error |-> r.error, result |-> r.value]
    /\ UNCHANGED <<store, edits, calls>>

GetAllProducts(c) ==
    /\ LET r == get_all_products(c)
       IN response' = [op |-> "get_all_products", category |-> c,
                       error |-> r.error, result |-> r.value]
    /\ UNCHANGED <<store, edits, calls>>

GetProductCount(c) ==
    /\ LET r == get_product_count(c)
       IN response' = [op |-> "get_product_count", category |-> c,
                       error |-> r.error, result |-> r.value]
    /\ UNCHANGED <<store, edits, calls>>

----------------------------------------------------------------------------
(* Filter requests *)

\* GET api/category/<category_id>/filter/?<query_params>
CategoryProductFilter(category_id, query_params) ==
    /\ \E row_order \in order_by_created_at_desc(Products) :
          response' = [op |-> "CategoryProductFilterView",
                       category_id |-> category_id,
                       query_params |-> query_params,
                       result |-> CategoryProductFilterView_get(
                                     category_id, query_params, row_order)]
    /\ UNCHANGED <<store, edits, calls>>

\* GET api/products/filter/?<query_params>
ProductsFilter(query_params) ==
    /\ \E row_order \in order_by_created_at_desc(Products) :
          response' = [op |-> "ProductsFilterView",
                       category_id |-> NoId,
                       query_params |-> query_params,
                       result |-> ProductsFilterView_get(query_params, row_order)]
    /\ UNCHANGED <<store, edits, calls>>

\* GET api/products/advanced-search/?<query_params>
AdvancedSearch(query_params) ==
    /\ \E row_order \in order_by_created_at_desc(Products) :
          response' = [op |-> "api_advanced_search",
                       category_id |-> NoId,
                       query_params |-> query_params,
                       result |-> api_advanced_search(query_params, row_order)]
    /\ UNCHANGED <<store, edits, calls>>

\* GET api/new-arrivals/?<query_params>
NewArrivals(query_params) ==
    /\ \E row_order \in order_by_created_at_desc(Products) :
          response' = [op |-> "api_new_arrivals",
                       query_params |-> query_params,
                       result |-> api_new_arrivals(query_params, row_order)]
    /\ UNCHANGED <<store, edits, calls>>

----------------------------------------------------------------------------
(* Specifications *)

\* CategoryAttribute rows authored by the admin: category 1 defines brand
\* and color, category 2 defines color, the others define nothing.
CategoryAttributeFixture ==
    [c \in Categories |->
        IF c = 1 THEN {"brand", "color"} ELSE IF c = 2 THEN {"color"} ELSE {}]

\* A fresh catalog: every category is a root of type auto (field defaults),
\* every product sits in category 1 and is active (field defaults), and no
\* attribute row exists.
Init ==
    /\ categories = [c \in Categories |-> [parent |-> NoId, category_type |-> "auto"]]
    /\ products = [p \in Products |-> [ProductDefaults EXCEPT !.created_at = p]]
    /\ category_attributes = CategoryAttributeFixture
    /\ legacy_attribute_set = {}
    /\ attribute_values = {}
    /\ edits = 0
    /\ calls = NoCalls
    /\ response = [op |-> "none"]

\* The query string ?category=..&brand=..&color=..&foo=..; each argument is
\* the list of values sent for that parameter, <<>> when it is absent.
Query(category, brand, color, foo) ==
    LET sent == [category |-> category, brand |-> brand, color |-> color,
                 foo |-> foo]
    IN [k \in {k \in DOMAIN sent : sent[k] # <<>>} |-> sent[k]]

MaxTreeEdits == 2

\* A catalog whose categories form one chain (category c + 1 is the
\* subcategory of category c), all of type auto, with every product active
\* in category 1 and no attribute row.
TreeInit ==
    /\ categories = [c \in Categories |->
                        [parent |-> c - 1, category_type |-> "auto"]]
    /\ products = [p \in Products |-> [ProductDefaults EXCEPT !.created_at = p]]
    /\ category_attributes = CategoryAttributeFixture
    /\ legacy_attribute_set = {}
    /\ attribute_values = {}
    /\ edits = 0
    /\ calls = NoCalls
    /\ response = [op |-> "none"]

\* Category tree: admin edits of categories and products, tree reads, and
\* filter requests that only name a category.
NextTree ==
    \/ /\ edits < MaxTreeEdits
       /\ \E c \in Categories, np \in {NoId} \cup Categories, t \in CATEGORY_TYPES :
             \* one field of the form is changed per save
             /\ np = categories[c].parent \/ t = categories[c].category_type
             /\ SaveCategory(c, np, t)
    \/ /\ edits < MaxTreeEdits
       /\ \E p \in Products, c \in Categories, a \in BOOLEAN :
             \* one field of the form is changed per save
             /\ c = products[p].category \/ a = products[p].is_active
             /\ SaveProduct(p, c, a)
    \/ \E c \in Categories : GetEffectiveCategoryType(c)
    \/ \E c \in Categories : GetAllSubcategories(c)
    \/ \E c \in Categories : GetAllProducts(c)
    \/ \E c \in Categories : GetProductCount(c)
    \/ \E c \in Categories : CategoryProductFilter(c, Query(<<>>, <<>>, <<>>, <<>>))
    \/ \E c \in Categories :
          ProductsFilter(Query(<<DecimalLiterals[c]>>, <<>>, <<>>, <<>>))

SpecTree == TreeInit /\ [][NextTree]_vars

\* Inputs of the attribute operations
AttributeKeys == Attributes \cup {"size"}
ValuesOf(key) ==
    IF key = "brand" THEN {"", "Nike", "Adidas"}
    ELSE IF key = "color" THEN {"", "Black", "White"}
    ELSE {"M"}
LegacyKeys == {"brand", "color"}
LegacyValuesOf(key) == ValuesOf(key) \ {""}

\* Attribute stores: writes through set_attribute_value and legacy rows,
\* reads through get_attribute_value.
NextAttr ==
    \/ \E p \in Products, k \in AttributeKeys : \E v \in ValuesOf(k) :
          SetAttributeValue(p, k, v)
    \/ \E p \in Products, k \in LegacyKeys : \E v \in LegacyValuesOf(k) :
          CreateLegacyAttribute(p, k, v)
    \/ \E p \in Products, k \in AttributeKeys : GetAttributeValue(p, k)

SpecAttr == Init /\ [][NextAttr]_vars

MaxFilterEdits == 2

\* price_toman of the test products, in creation order
FixturePrices == <<100000, 150000, 300000, 80000>>

\* The catalog of test_multivalue_filter_simple.create_test_data: named and
\* priced products with legacy brand and color rows on every product
\* (Nike/Black and Adidas/White alternating), all products active in one
\* category.
FilterInit ==
    /\ categories = [c \in Categories |-> [parent |-> NoId, category_type |-> "auto"]]
    /\ products =
          [p \in Products |->
              save_prices([ProductDefaults EXCEPT
                  !.name = IF p % 2 = 1 THEN "Nike" ELSE "Air",
                  !.price_toman = FixturePrices[((p - 1) % Len(FixturePrices)) + 1],
                  !.created_at = p])]
    /\ category_attributes = CategoryAttributeFixture
    /\ legacy_attribute_set =
          UNION {{[product |-> p, key |-> "brand",
                   value |-> IF p % 2 = 1 THEN "Nike" ELSE "Adidas"],
                  [product |-> p, key |-> "color",
                   value |-> IF p % 2 = 1 THEN "Black" ELSE "White"]}
                 : p \in Products}
    /\ attribute_values = {}
    /\ edits = 0
    /\ calls = NoCalls
    /\ response = [op |-> "none"]

\* Query strings of the filter requests
BrandLists == {<<>>, <<"Nike">>, <<"Nike", "Adidas">>}
ColorLists == {<<>>, <<"Black">>, <<"">>}
FilterQueries ==
    {Query(<<>>, b, col, <<>>) : b \in BrandLists, col \in ColorLists}
    \cup {Query(<<"2">>, b, <<>>, <<>>) : b \in BrandLists}
    \cup {Query(c, <<>>, <<>>, <<"bar">>) : c \in {<<>>, <<"2">>}}
CategoryFilterQueries ==
    {Query(<<>>, b, col, <<>>) : b \in BrandLists, col \in ColorLists}
    \cup {Query(<<>>, <<>>, <<>>, <<"bar">>)}

\* Faceted filtering: attribute writes and product edits, then filter
\* requests on both endpoints.
NextFilter ==
    \/ /\ edits < MaxFilterEdits
       /\ \E p \in Products, k \in Attributes : \E v \in ValuesOf(k) \ {""} :
             SetAttributeValue(p, k, v)
    \/ /\ edits < MaxFilterEdits
       /\ \E p \in Products, k \in LegacyKeys : \E v \in LegacyValuesOf(k) :
             CreateLegacyAttribute(p, k, v)
    \/ /\ edits < MaxFilterEdits
       /\ \E p \in Products, c \in {1, 2}, a \in BOOLEAN : SaveProduct(p, c, a)
    \/ \E q \in FilterQueries : ProductsFilter(q)
    \/ \E c \in {1, 2}, q \in CategoryFilterQueries : CategoryProductFilter(c, q)

SpecFilter == FilterInit /\ [][NextFilter]_vars

\* Category change: legacy rows are written (size is a key no category
\* defines), then products are saved into any category.
NextCleanup ==
    \/ \E p \in Products, k \in LegacyKeys \cup {"size"} :
          \E v \in LegacyValuesOf(k) : CreateLegacyAttribute(p, k, v)
    \/ \E p \in Products, c \in Categories, a \in BOOLEAN : SaveProduct(p, c, a)

SpecCleanup == FilterInit /\ [][NextCleanup]_vars

\* the query string made of the parameters of `sent` that carry values
Params(sent) == [k \in {k \in DOMAIN sent : sent[k] # <<>>} |-> sent[k]]

MaxPriceEdits == 1

PriceValues == {80000, 100000, 150000, 300000}

\* Query strings with price bounds (one of them malformed), alone or with
\* an attribute filter or a search
PriceQueries ==
    {Params([price_toman__gte |-> gte, price_toman__lte |-> lte,
             brand |-> b, q |-> q]) :
        gte \in {<<>>, <<"100000">>, <<"abc">>},
        lte \in {<<>>, <<"150000">>, <<"200000">>},
        b \in {<<>>, <<"Nike">>}, q \in {<<>>, <<"nike">>}}
CategoryPriceQueries ==
    {Params([price_toman__gte |-> gte, price_toman__lte |-> lte,
             price_usd__gte |-> usd, brand |-> b]) :
        gte \in {<<>>, <<"100000">>, <<"abc">>},
        lte \in {<<>>, <<"150000">>, <<"200000">>},
        usd \in {<<>>, <<"100000">>}, b \in {<<>>, <<"Nike">>}}

\* Price filtering: prices are edited through the admin form, then filter
\* requests with price bounds arrive on both endpoints.
NextPrice ==
    \/ /\ edits < MaxPriceEdits
       /\ \E p \in Products, v \in PriceValues :
             SaveProductField(p, "price_toman", v)
    \/ /\ edits < MaxPriceEdits
       /\ \E p \in Products : SaveProductField(p, "price_usd", 100000)
    \/ \E q \in PriceQueries : ProductsFilter(q)
    \/ \E q \in CategoryPriceQueries : CategoryProductFilter(1, q)

SpecPrice == FilterInit /\ [][NextPrice]_vars

MaxSearchEdits == 1
MaxPageEdits == 1

\* Query strings of the general endpoint with a search text, the boolean
\* overrides and a category
SearchQueries ==
    {Params([q |-> q, search |-> search, is_active |-> act,
             is_new_arrival |-> arr, category |-> c]) :
        q \in {<<>>, <<"nike">>}, search \in {<<>>, <<"IK">>},
        act \in {<<>>, <<"false">>, <<"True">>},
        arr \in {<<>>, <<"true">>, <<"No">>},
        c \in {<<>>, <<"1">>}}

\* Search and boolean overrides: products are deactivated, moved, marked
\* as new arrivals or given a sku, then the general endpoint is queried.
NextSearch ==
    \/ /\ edits < MaxSearchEdits
       /\ \E p \in Products, c \in {1, 2}, a \in BOOLEAN : SaveProduct(p, c, a)
    \/ /\ edits < MaxSearchEdits
       /\ \E p \in Products : SaveProductField(p, "is_new_arrival", TRUE)
    \/ /\ edits < MaxSearchEdits
       /\ \E p \in Products : SaveProductField(p, "sku", "NK1")
    \/ \E q \in SearchQueries : ProductsFilter(q)

SpecSearch == FilterInit /\ [][NextSearch]_vars

\* The test catalog with the creation times the clock can give: created_at
\* grows with the id, and products created within one tick of the clock
\* share it.
PageInit ==
    /\ categories = [c \in Categories |-> [parent |-> NoId, category_type |-> "auto"]]
    /\ \E created \in [Products -> Products] :
          /\ \A p1, p2 \in Products : p1 < p2 => created[p1] <= created[p2]
          /\ products =
                [p \in Products |->
                    save_prices([ProductDefaults EXCEPT
                        !.name = IF p % 2 = 1 THEN "Nike" ELSE "Air",
                        !.price_toman = FixturePrices[((p - 1) % Len(FixturePrices)) + 1],
                        !.created_at = created[p]])]
    /\ category_attributes = CategoryAttributeFixture
    /\ legacy_attribute_set =
          UNION {{[product |-> p, key |-> "brand",
                   value |-> IF p % 2 = 1 THEN "Nike" ELSE "Adidas"],
                  [product |-> p, key |-> "color",
                   value |-> IF p % 2 = 1 THEN "Black" ELSE "White"]}
                 : p \in Products}
    /\ attribute_values = {}
    /\ edits = 0
    /\ calls = NoCalls
    /\ response = [op |-> "none"]

\* a category id no Category row has
MissingCategory == 999

\* Query strings with page and per_page
PageQueries ==
    {Params([page |-> pg, per_page |-> pp, brand |-> b, category |-> c]) :
        pg \in {<<>>, <<"2">>, <<"999">>}, pp \in {<<>>, <<"1000">>},
        b \in {<<>>, <<"Nike", "Adidas">>}, c \in {<<>>, <<"1">>, <<"999">>}}
CategoryPageQueries ==
    {Params([page |-> pg, per_page |-> pp, brand |-> b, foo |-> foo]) :
        pg \in {<<>>, <<"2">>, <<"999">>}, pp \in {<<>>, <<"1000">>},
        b \in {<<>>, <<"Nike", "Adidas">>}, foo \in {<<>>, <<"bar">>}}
SearchPageQueries ==
    {Params([page |-> pg, per_page |-> pp, is_active |-> act]) :
        pg \in {<<>>, <<"2">>, <<"999">>},
        pp \in {<<>>, <<"1000">>, <<"0">>, <<"abc">>},
        act \in {<<>>, <<"true">>}}

\* Paging: products are deactivated, then the three paginated endpoints
\* are queried with page and per_page.
NextPage ==
    \/ /\ edits < MaxPageEdits
       /\ \E p \in Products, a \in BOOLEAN : SaveProduct(p, 1, a)
    \/ \E q \in PageQueries : ProductsFilter(q)
    \/ \E c \in {1, MissingCategory}, q \in CategoryPageQueries :
          CategoryProductFilter(c, q)
    \/ \E q \in SearchPageQueries : AdvancedSearch(q)

SpecPage == PageInit /\ [][NextPage]_vars

MaxReadEdits == 2

\* Attribute views of a product: flexible values are written, legacy rows
\* are added under the old brand key, products change category or have
\* their legacy rows cleaned up, then the
\* attributes of a product are read as a dictionary and through the
\* serializer.
NextRead ==
    \/ /\ edits < MaxReadEdits
       /\ \E p \in Products, k \in Attributes, v \in {"", "Nike", "Red"} :
             SetAttributeValue(p, k, v)
    \/ /\ edits < MaxReadEdits
       /\ \E p \in Products : CreateLegacyAttribute(p, BRAND_FA, "Puma")
    \/ /\ edits < MaxReadEdits
       /\ \E p \in Products, c \in Categories :
             SaveProduct(p, c, products[p].is_active)
    \/ /\ edits < MaxReadEdits
       /\ \E p \in Products : CleanupProductAttributes(p)
    \/ \E p \in Products : GetAttributesDict(p)
    \/ \E p \in Products : SerializeAttributes(p)

SpecRead == FilterInit /\ [][NextRead]_vars

\* the contents a brand row can have when it is written past clean(), with
\* ProductAttributeValue.objects.create: any predefined choice or none, any
\* custom text or none
BrandRows(p) ==
    {[product |-> p, attribute |-> "brand", attribute_value |-> id,
      custom_value |-> text] :
        id \in {NoId, 1}, text \in {None, "", "Nike", "Adidas"}}

\* A fresh catalog in which every product has at most one brand row of any
\* content.
RowsInit ==
    /\ categories = [c \in Categories |-> [parent |-> NoId, category_type |-> "auto"]]
    /\ products = [p \in Products |-> [ProductDefaults EXCEPT !.created_at = p]]
    /\ category_attributes = CategoryAttributeFixture
    /\ legacy_attribute_set = {}
    /\ \E holders \in SUBSET Products :
          \E chosen \in [holders -> BrandRows(1)] :
             attribute_values =
                {[chosen[p] EXCEPT !.product = p] : p \in holders}
    /\ edits = 0
    /\ calls = NoCalls
    /\ response = [op |-> "none"]

\* Reading stored rows: each row is read through the model method and
\* through the serializer.
NextRows ==
    \/ \E row \in attribute_values : GetDisplayValue(row)
    \/ \E row \in attribute_values : SerializeAttributeValue(row)

SpecRows == RowsInit /\ [][NextRows]_vars

MaxArrivalEdits == 3

\* the limit parameter absent, empty, no number, zero, negative, small and
\* over the maximum
LimitQueries ==
    {Params([limit |-> l]) :
        l \in {<<>>, <<"">>, <<"abc">>, <<"0">>, <<"-1">>, <<"1">>, <<"1000">>}}

\* New arrivals: products are marked as new arrivals or unmarked,
\* deactivated or activated, then the endpoint is queried with a limit.
NextArrivals ==
    \/ /\ edits < MaxArrivalEdits
       /\ \E p \in Products, marked \in BOOLEAN :
             SaveProductField(p, "is_new_arrival", marked)
    \/ /\ edits < MaxArrivalEdits
       /\ \E p \in Products, a \in BOOLEAN :
             SaveProduct(p, products[p].category, a)
    \/ \E q \in LimitQueries : NewArrivals(q)

SpecArrivals == FilterInit /\ [][NextArrivals]_vars

MaxRaceEdits == 2

\* Calls that overlap: workers run set_attribute_value and Product.save
\* statement by statement, each statement committed on its own, while
\* other requests read the tables.
NextRace ==
    \/ /\ edits < MaxRaceEdits
       /\ \E w \in Workers, p \in Products, k \in {"color", "size"} :
             SetAttributeValueBegin(w, p, k, "Black")
    \/ \E w \in Workers : SetAttributeValueSave(w)
    \/ /\ edits < MaxRaceEdits
       /\ \E w \in Workers, p \in Products, c \in Categories :
             SaveProductBegin(w, p, c, products[p].is_active)
    \/ \E w \in Workers : SaveProductWrite(w)
    \/ \E w \in Workers : SaveProductFail(w)
    \/ \E p \in Products : ReadAttributeValues(p)
    \/ \E p \in Products : ReadProduct(p)

SpecRace == FilterInit /\ [][NextRace]_vars

----------------------------------------------------------------------------
(* Properties *)

\* the category reached from d after n parent links (NoId past a root)
RECURSIVE NthParent(_, _)
NthParent(d, n) ==
    IF n = 0 THEN d
    ELSE LET up == NthParent(d, n - 1)
         IN IF up = NoId THEN NoId ELSE categories[up].parent

Ancestors(d) == {NthParent(d, n) : n \in 1..MaxCategory} \ {NoId}
Descendants(c) == {d \in Categories : c \in Ancestors(d)}
Acyclic == \A c \in Categories : c \notin Ancestors(c)

IsFilterResponse == response.op \in {"CategoryProductFilterView", "ProductsFilterView"}

\* the attribute keys a filter request can name: the CategoryAttribute keys
\* of the category (category endpoint), the keys present in either store
\* among active products (general endpoint)
KnownAttributeKeys ==
    IF response.op = "CategoryProductFilterView"
    THEN category_attributes[response.category_id]
    ELSE {r.key : r \in {r \in legacy_attribute_set : products[r.product].is_active}}
         \cup {r.attribute : r \in {r \in attribute_values : products[r.product].is_active}}

\* the values requested for key k, blank values aside
RequestedValues(k) ==
    {v \in Range(response.query_params[k]) : v \notin {"", " "}}

\* the attribute filters of the request
RequestedKeys ==
    {k \in DOMAIN response.query_params :
        k \in KnownAttributeKeys /\ RequestedValues(k) # {}}

\* the products a filter request ranges over before attribute filtering
ScopedProducts ==
    IF response.op = "CategoryProductFilterView"
    THEN {p \in Products : products[p].category = response.category_id
                           /\ products[p].is_active}
    ELSE {p \in Products :
            /\ products[p].is_active
            /\ ("category" \in DOMAIN response.query_params
                /\ IsInt(QueryGet(response.query_params, "category")))
               => products[p].category = int(QueryGet(response.query_params, "category"))}

LegacyHolds(p, k, V) ==
    \E r \in legacy_attribute_set : r.product = p /\ r.key = k /\ r.value \in V
PredefinedHolds(p, k, V) ==
    \E r \in attribute_values :
        /\ r.product = p /\ r.attribute = k /\ r.attribute_value # NoId
        /\ \E v \in NewAttributeValues : v.id = r.attribute_value /\ v.value \in V
CustomHolds(p, k, V) ==
    \E r \in attribute_values :
        r.product = p /\ r.attribute = k /\ r.custom_value \in V

\* product p satisfies key k: any storage form equals any requested value
Satisfies(p, k) ==
    \/ LegacyHolds(p, k, RequestedValues(k))
    \/ PredefinedHolds(p, k, RequestedValues(k))
    \/ CustomHolds(p, k, RequestedValues(k))

\* C1: a filter request with attribute filters returns exactly the scoped
\* products that satisfy every requested key, where a key is satisfied when
\* the legacy value, the predefined flexible value or the custom flexible
\* value equals one of the values requested for it.
C1_FilterIsAndOfOrs ==
    (IsFilterResponse /\ response.result.status = 200 /\ RequestedKeys # {})
    => response.result.products =
          {p \in ScopedProducts : \A k \in RequestedKeys : Satisfies(p, k)}

\* two keys requested; a returned product satisfies one of them through the
\* flexible store only, and a scoped product is left out
C1_Witness ==
    /\ IsFilterResponse
    /\ response.result.status = 200
    /\ Cardinality(RequestedKeys) = 2
    /\ \E p \in response.result.products : \E k \in RequestedKeys :
          ~LegacyHolds(p, k, RequestedValues(k))
    /\ ScopedProducts \ response.result.products # {}

\* C2: a filter request whose parameters are all unrecognized (no attribute
\* key, price key or special key among them) returns no product.
C2_UnrecognizedGivesEmpty ==
    (/\ IsFilterResponse
     /\ response.result.status = 200
     /\ DOMAIN response.query_params # {}
     /\ \A k \in DOMAIN response.query_params :
           k \notin KnownAttributeKeys \cup PRICE_KEYS \cup SPECIAL_KEYS)
    => response.result.products = {}

\* the category a filter request names, NoId when it names none
RequestedCategory ==
    IF response.op = "CategoryProductFilterView" THEN response.category_id
    ELSE IF "category" \in DOMAIN response.query_params
            /\ IsInt(QueryGet(response.query_params, "category"))
            /\ int(QueryGet(response.query_params, "category")) \in Categories
         THEN int(QueryGet(response.query_params, "category"))
         ELSE NoId

\* C3: a filter request that names a category and nothing else returns
\* get_all_products of that category: for a container category the active
\* products of every descendant are included.
C3_ScopeIsAllProducts ==
    (/\ IsFilterResponse
     /\ RequestedCategory # NoId
     /\ DOMAIN response.query_params \subseteq {"category"}
     /\ get_all_products(RequestedCategory).error = "")
    => response.result.products = get_all_products(RequestedCategory).value

\* C4: for a category of type auto, get_effective_category_type follows the
\* table: subcategories and no active direct product -> container; no
\* subcategory and an active direct product -> direct; both -> container;
\* neither -> direct. Inactive products do not count.
C4_AutoTypeTable ==
    (response.op = "get_effective_category_type"
     /\ categories[response.category].category_type = "auto")
    => LET c == response.category
           hasSub == \E d \in Categories : categories[d].parent = c
           hasActive == \E p \in Products :
                           products[p].category = c /\ products[p].is_active
       IN /\ (hasSub /\ ~hasActive) => response.result = "container"
          /\ (~hasSub /\ hasActive) => response.result = "direct"
          /\ (hasSub /\ hasActive) => response.result = "container"
          /\ (~hasSub /\ ~hasActive) => response.result = "direct"

\* an auto category with subcategories, an active and an inactive direct
\* product was resolved
C4_Witness ==
    /\ response.op = "get_effective_category_type"
    /\ categories[response.category].category_type = "auto"
    /\ \E d \in Categories : categories[d].parent = response.category
    /\ \E p \in Products : products[p].category = response.category
                           /\ products[p].is_active
    /\ \E p \in Products : products[p].category = response.category
                           /\ ~products[p].is_active
    /\ response.result = "container"

\* the products the tree assigns to category c
ExpectedProducts(c) ==
    IF get_effective_category_type(c) = "container"
    THEN {p \in Products : products[p].is_active
                           /\ products[p].category \in {c} \cup Descendants(c)}
    ELSE {p \in Products : products[p].is_active /\ products[p].category = c}

\* C5: in an acyclic tree, get_all_products of a container category is the
\* set of active products of the category and of its descendants at every
\* depth, get_all_products of a direct category is its own active products,
\* and get_product_count is the size of that set.
C5_AllProductsOfSubtree ==
    Acyclic =>
       /\ response.op = "get_all_products" =>
             /\ response.error = ""
             /\ response.result = ExpectedProducts(response.category)
       /\ response.op = "get_product_count" =>
             /\ response.error = ""
             /\ response.result = Cardinality(ExpectedProducts(response.category))

\* get_all_products returned a product attached two levels below the
\* category it was asked for
C5_Witness ==
    /\ Acyclic
    /\ response.op = "get_all_products"
    /\ \E p \in response.result :
          NthParent(products[p].category, 2) = response.category

\* C6: a traversal that starts on a cycle of parent links stops with a
\* CategoryTreeCorrupt error.
C6_CycleReported ==
    (/\ response.op \in {"get_all_subcategories", "get_all_products",
                         "get_product_count"}
     /\ response.category \in Ancestors(response.category)
     /\ response.op # "get_all_subcategories"
           => is_container_category(response.category))
    => response.error = "CategoryTreeCorrupt"

\* C7: every ProductAttributeValue row has exactly one of attribute_value
\* and custom_value set.
C7_ExactlyOneSet ==
    \A r \in attribute_values :
        (r.attribute_value # NoId) # Truthy(r.custom_value)

\* C8: get_attribute_value right after set_attribute_value(key, v) on the
\* same product and key returns v.
C8_RoundTrip ==
    (response.op = "get_attribute_value" /\ response.written # None)
    => response.result = response.written

\* a value written as a predefined attribute_value was read back
C8_Witness ==
    /\ response.op = "get_attribute_value"
    /\ response.written # None
    /\ \E r \in attribute_values :
          /\ r.product = response.product /\ r.attribute = response.key
          /\ r.attribute_value # NoId

\* C9: set_attribute_value with a key that is no registered Attribute fails
\* with an error and creates or modifies no row.
C9_UnknownKeyRejected ==
    [][(response'.op = "set_attribute_value"
        /\ response' # response
        /\ response'.key \notin Attributes)
       => (response'.error = "ValueError" /\ store' = store)]_vars

\* an unknown key was rejected while the flexible store holds rows
C9_Witness ==
    /\ response.op = "set_attribute_value"
    /\ response.key \notin Attributes
    /\ response.error = "ValueError"
    /\ attribute_values # {}

\* C10: get_attribute_value returns the flexible value when a flexible row
\* exists, the legacy value when only a legacy row exists, and nothing only
\* when neither store has the key.
C10_LegacyFallback ==
    response.op = "get_attribute_value" =>
       LET flexible == attribute_values_of(response.product, response.key)
           legacy == {r \in legacy_attribute_set :
                        r.product = response.product /\ r.key = response.key}
       IN /\ flexible # {} =>
                \E r \in flexible : response.result = get_display_value(r)
          /\ (flexible = {} /\ legacy # {}) =>
                \E r \in legacy : response.result = r.value
          /\ (flexible = {} /\ legacy = {}) => response.result = None

\* the legacy rows of product p
legacy_rows_of(p) == {r \in legacy_attribute_set : r.product = p}

\* C11: when an existing product is saved with a category different from
\* its stored one, after the save it has no legacy row whose key is outside
\* the CategoryAttribute keys of the new category.
C11_CleanupOnCategoryChange ==
    [][\A p \in Products :
          products'[p].category # products[p].category
          => \A r \in legacy_attribute_set' :
                r.product = p => r.key \in category_attributes'[products'[p].category]]_vars

\* a product saved into a category that defines no attribute lost every
\* legacy row while another product kept its rows
C11_Witness ==
    /\ response.op = "Product.save"
    /\ category_attributes[products[response.product].category] = {}
    /\ legacy_rows_of(response.product) = {}
    /\ \E q \in Products : legacy_rows_of(q) # {}

\* the price keys of the request that carry a non-blank value
RequestedPriceKeys ==
    {k \in DOMAIN response.query_params :
        k \in PRICE_KEYS \ KnownAttributeKeys
        /\ QueryGet(response.query_params, k) \notin {"", " "}}

\* the price keys whose value is a number, and those whose value is not
NumericPriceKeys ==
    {k \in RequestedPriceKeys : IsFloat(QueryGet(response.query_params, k))}
MalformedPriceKeys == RequestedPriceKeys \ NumericPriceKeys

\* product p is within the bound of price key k, the bound included
WithinBound(p, k) ==
    LET bound == float(QueryGet(response.query_params, k))
        price == products[p][PRICE_LOOKUPS[k].field]
    IN /\ price # NullPrice
       /\ PRICE_LOOKUPS[k].lookup = "gte" => bound <= price
       /\ PRICE_LOOKUPS[k].lookup = "lte" => price <= bound

\* the search text of a request to the general endpoint, None without one
RequestedSearch ==
    IF response.op # "ProductsFilterView" THEN None
    ELSE IF "q" \in DOMAIN response.query_params
            /\ QueryGet(response.query_params, "q") \notin {"", " "}
         THEN QueryGet(response.query_params, "q")
    ELSE IF "search" \in DOMAIN response.query_params
            /\ QueryGet(response.query_params, "search") \notin {"", " "}
         THEN QueryGet(response.query_params, "search")
    ELSE None

\* C12: a request whose parameters are numeric price bounds returns exactly
\* the scoped products whose price lies within every bound, the bounds
\* included.
C12_PriceBoundsInclusive ==
    (/\ IsFilterResponse
     /\ DOMAIN response.query_params # {}
     /\ DOMAIN response.query_params = NumericPriceKeys)
    => /\ response.result.status = 200
       /\ response.result.products =
             {p \in ScopedProducts : \A k \in NumericPriceKeys : WithinBound(p, k)}

\* price_toman__gte=L and price_toman__lte=H: a product priced exactly L
\* and a product priced exactly H are returned
C12_Witness ==
    /\ response.op = "ProductsFilterView"
    /\ DOMAIN response.query_params = {"price_toman__gte", "price_toman__lte"}
    /\ NumericPriceKeys = {"price_toman__gte", "price_toman__lte"}
    /\ \E p \in response.result.products :
          products[p].price_toman =
             float(QueryGet(response.query_params, "price_toman__gte"))
    /\ \E p \in response.result.products :
          products[p].price_toman =
             float(QueryGet(response.query_params, "price_toman__lte"))

RequestedSpecial(key) ==
    IF key \in DOMAIN response.query_params
       /\ QueryGet(response.query_params, key) \notin {"", " "}
    THEN QueryGet(response.query_params, key) ELSE None

\* C14: on the general endpoint, when q or search is supplied every
\* returned product contains the query, case aside, in its name,
\* description, sku or model, whatever the other parameters are.
C14_SearchAlwaysApplied ==
    (/\ response.op = "ProductsFilterView"
     /\ response.result.status = 200
     /\ RequestedSearch # None)
    => \A p \in response.result.products :
          search_matches(products[p], RequestedSearch)

\* C15: on the general endpoint, with is_active=false (or 0, no) every
\* returned product is inactive and satisfies the other constraints of the
\* request (is_new_arrival, category, price, attributes); otherwise every
\* returned product is active.
C15_ActiveOverrideOnly ==
    (response.op = "ProductsFilterView" /\ response.result.status = 200)
    => \A p \in response.result.products :
          IF lower(RequestedSpecial("is_active")) \in FALSE_WORDS
          THEN /\ ~products[p].is_active
               /\ lower(RequestedSpecial("is_new_arrival")) \in TRUE_WORDS
                     => products[p].is_new_arrival
               /\ lower(RequestedSpecial("is_new_arrival")) \in FALSE_WORDS
                     => ~products[p].is_new_arrival
               /\ IsInt(RequestedSpecial("category"))
                     => products[p].category = int(RequestedSpecial("category"))
               /\ \A k \in NumericPriceKeys : WithinBound(p, k)
               /\ \A k \in RequestedKeys : Satisfies(p, k)
          ELSE products[p].is_active

\* product p comes before product q: later created_at first, and for equal
\* created_at the larger id first
Before(p, q) ==
    \/ products[p].created_at > products[q].created_at
    \/ products[p].created_at = products[q].created_at /\ p > q

\* the products of S in that order
RECURSIVE NewestFirst(_)
NewestFirst(S) ==
    IF S = {} THEN <<>>
    ELSE LET first == CHOOSE p \in S : \A q \in S \ {p} : Before(p, q)
         IN <<first>> \o NewestFirst(S \ {first})

\* the items of page `number` of a list cut into pages of `size`
PageOf(rows, number, size) ==
    [i \in 1..(IF number * size <= Len(rows) THEN size
               ELSE IF (number - 1) * size >= Len(rows) THEN 0
               ELSE Len(rows) - (number - 1) * size)
        |-> rows[(number - 1) * size + i]]

\* C16: the products of a filter response come in one order, created_at
\* descending and id descending among equal created_at, so the page shown
\* is the page of that order.
C16_DeterministicOrder ==
    (IsFilterResponse /\ response.result.status = 200)
    => \E size \in 1..max_page_size :
          response.result.page_items =
             PageOf(NewestFirst(response.result.products),
                    response.result.pagination.current_page, size)

\* the endpoints that take per_page
IsPaginatedResponse ==
    response.op \in {"CategoryProductFilterView", "ProductsFilterView",
                     "api_advanced_search"}

C18_PageBeyondLastShowsFirst ==
    (/\ IsFilterResponse
     /\ response.op = "CategoryProductFilterView"
           => response.category_id \in Categories
     /\ "page" \in DOMAIN response.query_params
     /\ QueryGet(response.query_params, "page") = "999")
    => /\ response.result.status = 200
       /\ response.result.pagination.current_page = 1

\* C19: every successful filter response has the keys products, pagination
\* and filters_applied, and a pagination block that agrees with the result.
C19_UniformShape ==
    (IsFilterResponse /\ response.result.status = 200)
    => LET block == response.result.pagination
       IN /\ {"products", "pagination", "filters_applied"}
                \subseteq response.result.body
          /\ block.total_items = Cardinality(response.result.products)
          /\ 1 <= block.current_page
          /\ block.current_page <= block.total_pages
          /\ block.has_previous <=> block.current_page > 1
          /\ block.has_next <=> block.current_page < block.total_pages

\* the category id a filter request is scoped to, NoId when it has none
ScopeCategoryId ==
    IF response.op = "CategoryProductFilterView" THEN response.category_id
    ELSE IF response.op = "ProductsFilterView"
            /\ IsInt(RequestedSpecial("category"))
         THEN int(RequestedSpecial("category"))
    ELSE NoId

\* C20: a filter request scoped to a category id that does not exist ends
\* in a 404 response without a product list, on the path form and on the
\* query form.
C20_UnknownCategoryNotFound ==
    (IsFilterResponse /\ ScopeCategoryId \notin Categories \cup {NoId})
    => /\ response.result.status = 404
       /\ "products" \notin response.result.body

\* C21: a filter request without any query parameter applies no attribute
\* filter: it returns exactly the active products in scope, all active
\* products on the general endpoint and the active products of the category
\* on the category endpoint.
C21_NoParametersNoFiltering ==
    (/\ IsFilterResponse
     /\ response.op = "CategoryProductFilterView"
           => response.category_id \in Categories
     /\ DOMAIN response.query_params = {})
    => /\ response.result.status = 200
       /\ response.result.products = ScopedProducts

\* the category endpoint, asked without parameters, returned a product that
\* carries attribute rows and left a product out of scope out
C21_Witness ==
    /\ response.op = "CategoryProductFilterView"
    /\ DOMAIN response.query_params = {}
    /\ \E p \in response.result.products : legacy_rows_of(p) # {}
    /\ Products \ response.result.products # {}

\* C22: page and per_page are special parameters on both filter endpoints:
\* a successful request that carries nothing but page and/or per_page
\* returns the unfiltered products in scope.
C22_PaginationParamsRecognized ==
    (/\ IsFilterResponse
     /\ response.result.status = 200
     /\ DOMAIN response.query_params # {}
     /\ DOMAIN response.query_params \subseteq {"page", "per_page"})
    => response.result.products = ScopedProducts

\* C23: get_attributes_dict of a product has exactly the keys of the
\* CategoryAttribute set of its category for which a value exists in the
\* flexible store or, failing that, in the legacy store: no key outside the
\* set, and keys stored only as legacy rows included.
C23_DictOverCategoryKeys ==
    response.op = "get_attributes_dict" =>
       LET p == response.product
       IN DOMAIN response.result =
             {k \in category_attributes[products[p].category] :
                 \/ attribute_values_of(p, k) # {}
                 \/ \E r \in legacy_rows_of(p) : r.key = k}

\* C24: set_attribute_value is atomic for other requests: no request that
\* reads the ProductAttributeValue rows of a product, at any moment of a
\* call or of two overlapping calls, sees a row whose attribute_value and
\* custom_value are both null.
C24_NoHalfWrittenRow ==
    response.op = "attribute_values.all" =>
       \A r \in response.rows :
          ~(r.attribute_value = NoId /\ r.custom_value = None)

\* a request reads product p and its legacy rows in this step
ReadsProduct(p) ==
    /\ response'.op = "Product.objects.get"
    /\ response'.product = p
    /\ response' # response

\* C25: changing the category and cleaning up the legacy rows is one atomic
\* step of Product.save: no request reads a product while a save has
\* purged its legacy rows and the product row still holds the old category,
\* and a save whose product write fails leaves the legacy rows it had
\* deleted in the store.
C25_SaveIsAtomic ==
    [][\A w \in Workers :
          calls[w].pc = "Product.save" =>
             /\ ReadsProduct(calls[w].product) => calls[w].removed = {}
             /\ (calls'[w] = Idle /\ response'.op = "Product.save"
                    /\ response'.error # "")
                => calls[w].removed \subseteq legacy_attribute_set']_vars

C27_PredefinedWins ==
    response.op \in {"get_display_value", "get_value"} =>
       LET row == response.row
       IN /\ (row.attribute_value # NoId /\ Truthy(row.custom_value))
                => response.result = NewAttributeValue_value(row.attribute_value)
          /\ (row.attribute_value = NoId /\ Truthy(row.custom_value))
                => response.result = row.custom_value

\* a row with the predefined choice Nike and the custom text Adidas was
\* read through the model method
C27_Witness ==
    /\ response.op = "get_display_value"
    /\ response.row.attribute_value # NoId
    /\ Truthy(response.row.custom_value)
    /\ response.row.custom_value
          # NewAttributeValue_value(response.row.attribute_value)
    /\ response.result = NewAttributeValue_value(response.row.attribute_value)

\* the non-empty values the flexible store holds for product p under a key
\* that is serialized as k, and those the legacy store holds
FlexibleValues(p, k) ==
    {get_display_value(r) :
        r \in {r \in attribute_values :
                  r.product = p /\ renamed(r.attribute) = k}} \ {""}
LegacyValues(p, k) ==
    {r.value : r \in {r \in legacy_rows_of(p) : renamed(r.key) = k}} \ {""}

\* C28: the serialized attribute list of a product holds each key at most
\* once, and for a key that has a non-empty value in the flexible store and
\* in the legacy store the entry carries the flexible value, in whatever
\* order the rows are returned and also when the legacy row is stored
\* under the old brand key.
C28_FlexibleOverridesLegacy ==
    response.op = "get_attributes" =>
       LET result == response.result
           p == response.product
       IN /\ \A i, j \in 1..Len(result) :
                result[i].key = result[j].key => i = j
          /\ \A i \in 1..Len(result) :
                (/\ FlexibleValues(p, result[i].key) # {}
                 /\ LegacyValues(p, result[i].key) # {})
                => result[i].value \in FlexibleValues(p, result[i].key)

\* a product with a flexible brand, a legacy brand and a legacy row under
\* the old brand key, all different, was serialized with the flexible brand
C28_Witness ==
    /\ response.op = "get_attributes"
    /\ \E i \in 1..Len(response.result) :
          /\ response.result[i].key = "brand"
          /\ response.result[i].value \in FlexibleValues(response.product, "brand")
          /\ \E r1, r2 \in legacy_rows_of(response.product) :
                /\ r1.key = "brand" /\ r2.key = BRAND_FA
                /\ r1.value # response.result[i].value
                /\ r2.value # response.result[i].value

\* a step in which a cleanup runs: a product is saved into another
\* category, or the cleanup endpoint deletes rows
CleanupRuns ==
    \/ \E p \in Products : products'[p].category # products[p].category
    \/ /\ response'.op = "cleanup_product_attributes"
       /\ legacy_attribute_set' # legacy_attribute_set

\* C29: a cleanup deletes only legacy rows of the product it runs for whose
\* key is outside the CategoryAttribute set of the product's (new)
\* category: legacy rows with a valid key keep their value, the flexible
\* rows are unchanged even for keys that are invalid in the new category,
\* and no row of another product changes.
C29_CleanupTouchesOnlyInvalidLegacyRows ==
    [][CleanupRuns =>
          /\ legacy_attribute_set' \subseteq legacy_attribute_set
          /\ \A r \in legacy_attribute_set \ legacy_attribute_set' :
                /\ r.product = response'.product
                /\ r.key \notin
                      category_attributes[products'[r.product].category]
          /\ attribute_values' = attribute_values]_vars

\* a product with a flexible brand row was saved into the category that
\* defines only color: its legacy brand row is gone, its legacy color row
\* and its flexible brand row are there, and another product still has its
\* legacy brand row
C29_Witness ==
    /\ response.op = "Product.save"
    /\ category_attributes[products[response.product].category] = {"color"}
    /\ \E r \in legacy_rows_of(response.product) : r.key = "color"
    /\ \A r \in legacy_rows_of(response.product) : r.key # "brand"
    /\ attribute_values_of(response.product, "brand") # {}
    /\ \E q \in Products \ {response.product} :
          \E r \in legacy_rows_of(q) : r.key = "brand"

\* C30: api_new_arrivals returns at most max_limit products whatever the
\* limit parameter is, and every product it returns is active and marked
\* as a new arrival.
C30_NewArrivalsCapped ==
    response.op = "api_new_arrivals" =>
       /\ Len(response.result.products) <= max_limit
       /\ \A p \in Range(response.result.products) :
             products[p].is_active /\ products[p].is_new_arrival

====
